---- MODULE Spec2Model ----
(***************************************************************************)
(* Model of the purchase-to-command pipeline of DonutShopAutoDeliver:      *)
(* the command queue and the session life cycle, processPurchase,          *)
(* formatAmount, the notifications and the webhook handlers.               *)
(*                                                                         *)
(* The program is held by two files, src/index.js and its variant          *)
(* src/unnamed/part_000; the variable build says which of them runs. The   *)
(* queue and the session are the same in both; part_000 reports every      *)
(* purchase to the Discord webhook and parses the fields of an embed,      *)
(* index.js has the sellauth endpoint and parses the description of an     *)
(* embed.                                                                  *)
(*                                                                         *)
(* JavaScript values are modelled as follows.                              *)
(*   string            a sequence of one-character strings                 *)
(*   optional value    undefined (the empty tuple) or Some(v) = <<v>>      *)
(*   number            an integer; a product that may be NaN is a record   *)
(*                     [nan, v]                                            *)
(***************************************************************************)
EXTENDS Integers, Sequences, FiniteSets, TLC

(***************************************************************************)
(* Bounds of the model.                                                    *)
(***************************************************************************)
MaxCommands == 2
MaxSessions == 3
MaxItems == 2
MaxEarlier == 0
MaxQuantity == 4

(***************************************************************************)
(* Values.                                                                 *)
(***************************************************************************)
\* Op applied to the value of e, which is evaluated once
Bind(e, Op(_)) == CHOOSE y \in { Op(x) : x \in {e} } : TRUE

undefined == <<>>
Some(v) == <<v>>
null == 0

\* JavaScript truthiness of an optional string: undefined, null and "" are falsy.
TruthyStr(v) == v # undefined /\ v[1] # <<>>
\* JavaScript truthiness of an optional number: undefined and 0 are falsy.
TruthyNum(v) == v # undefined /\ v[1] # 0

\* the lower-case letter of every upper-case letter
\* a || b on optional strings and on optional numbers
OrStr(a, b) == IF TruthyStr(a) THEN a ELSE b
OrNum(a, b) == IF TruthyNum(a) THEN a[1] ELSE b

LowerOf ==
  [A |-> "a", B |-> "b", C |-> "c", D |-> "d", E |-> "e", F |-> "f", G |-> "g",
   H |-> "h", I |-> "i", J |-> "j", K |-> "k", L |-> "l", M |-> "m", N |-> "n",
   O |-> "o", P |-> "p", Q |-> "q", R |-> "r", S |-> "s", T |-> "t", U |-> "u",
   V |-> "v", W |-> "w", X |-> "x", Y |-> "y", Z |-> "z"]

LowerChar(c) == IF c \in DOMAIN LowerOf THEN LowerOf[c] ELSE c

\* String.prototype.toLowerCase
toLowerCase(s) == [i \in 1..Len(s) |-> LowerChar(s[i])]

Digit(d) == <<"0","1","2","3","4","5","6","7","8","9">>[d + 1]

RECURSIVE NatToString(_)
NatToString(n) ==
  IF n < 10 THEN <<Digit(n)>> ELSE NatToString(n \div 10) \o <<Digit(n % 10)>>

\* Number.prototype.toString of an integer
IntToString(n) == IF n < 0 THEN <<"-">> \o NatToString(-n) ELSE NatToString(n)

\* the decimal digits of r / scale (0 <= r < scale, scale a power of ten),
\* without trailing zeros
RECURSIVE FracDigits(_, _)
FracDigits(r, scale) ==
  IF r = 0 THEN <<>>
  ELSE <<Digit(r \div (scale \div 10))>> \o FracDigits(r % (scale \div 10), scale \div 10)

\* `${n / scale}` for an integer n >= scale: the quotient printed as JavaScript
\* prints a number, an integer without a point, a fraction with its digits
QuotientToString(n, scale) ==
  NatToString(n \div scale) \o
    (IF n % scale = 0 THEN <<>> ELSE <<".">> \o FracDigits(n % scale, scale))

Number(n) == [nan |-> FALSE, v |-> n]
NaN == [nan |-> TRUE, v |-> 0]

\* amountPerUnit * quantity: undefined * n is NaN
Times(optA, q) == IF optA = undefined THEN NaN ELSE Number(optA[1] * q)

\* formatAmount (every comparison with NaN is false)
formatAmount(amount) ==
  IF amount.nan THEN <<"N","a","N">>
  ELSE IF amount.v >= 1000000 THEN QuotientToString(amount.v, 1000000) \o <<"m">>
  ELSE IF amount.v >= 1000 THEN QuotientToString(amount.v, 1000) \o <<"k">>
  ELSE IntToString(amount.v)

(***************************************************************************)
(* Configuration: CONFIG.products, in Object.entries order.                *)
(***************************************************************************)
k_gold == <<"g","o","l","d">>
k_iron == <<"i","r","o","n">>
k_vip == <<"v","i","p">>
k_constructor == <<"c","o","n","s","t","r","u","c","t","o","r">>
k_nope == <<"n","o","p","e">>

n_Gold == <<"G","o","l","d">>
n_GOLD == <<"G","O","L","D">>
n_gold == <<"g","o","l","d">>
n_Iron == <<"I","r","o","n">>
n_Wood == <<"W","o","o","d">>
n_Object == <<"O","b","j","e","c","t">>
n_UnknownProduct ==
  <<"U","n","k","n","o","w","n"," ","P","r","o","d","u","c","t">>

c_afk == <<"/","a","f","k"," ","3","3">>
c_kit == <<"/","k","i","t">>

Steve == <<"S","t","e","v","e">>
Alex == <<"A","l","e","x">>

CONFIG_products ==
  << [key |-> k_gold,
      config |-> [name |-> Some(n_Gold), amountPerUnit |-> Some(1000000),
                  onPurchaseCommand |-> Some(c_afk)]],
     [key |-> k_iron,
      config |-> [name |-> Some(n_Iron), amountPerUnit |-> Some(1500),
                  onPurchaseCommand |-> undefined]],
     [key |-> k_vip,
      config |-> [name |-> Some(n_GOLD), amountPerUnit |-> Some(250),
                  onPurchaseCommand |-> Some(c_kit)]] >>

CatalogKeys == { CONFIG_products[i].key : i \in 1..Len(CONFIG_products) }

\* what a property read finds on Object.prototype: CONFIG.products is a plain
\* object, so CONFIG.products["constructor"] is the function Object, whose name
\* is "Object" and which has no amountPerUnit and no onPurchaseCommand
ObjectPrototype ==
  << [key |-> k_constructor,
      config |-> [name |-> Some(n_Object), amountPerUnit |-> undefined,
                  onPurchaseCommand |-> undefined]] >>

\* CONFIG.products[key]: an optional config
GetProduct(key) ==
  LET own == { i \in 1..Len(CONFIG_products) : CONFIG_products[i].key = key }
      inh == { i \in 1..Len(ObjectPrototype) : ObjectPrototype[i].key = key }
  IN IF own # {} THEN Some(CONFIG_products[CHOOSE i \in own : TRUE].config)
     ELSE IF inh # {} THEN Some(ObjectPrototype[CHOOSE i \in inh : TRUE].config)
     ELSE undefined

(***************************************************************************)
(* State.                                                                  *)
(***************************************************************************)
VARIABLES
  build,         \* the file that runs: src/index.js or src/unnamed/part_000
  bot,           \* the session object the global `bot` refers to (an index of sessions)
  isReady,       \* the global flag
  commandQueue,  \* the global pending list
  sessions,      \* the phase of every session object created so far
  timers,        \* pending setTimeout(createBot, 5000) timers
  enqueued,      \* history: every queueCommand call, in order
  delivered,     \* history: every bot.chat call, in order
  lastRequest    \* history: the HTTP request the last step handled, if it handled
                 \* one, and the processPurchase calls it made

vars == <<build, bot, isReady, commandQueue, sessions, timers,
          enqueued, delivered, lastRequest>>

State ==
  [build |-> build, bot |-> bot, isReady |-> isReady, commandQueue |-> commandQueue,
   sessions |-> sessions, timers |-> timers,
   enqueued |-> enqueued, delivered |-> delivered]

Commit(st) ==
  /\ build' = st.build
  /\ bot' = st.bot
  /\ isReady' = st.isReady
  /\ commandQueue' = st.commandQueue
  /\ sessions' = st.sessions
  /\ timers' = st.timers
  /\ enqueued' = st.enqueued
  /\ delivered' = st.delivered

(***************************************************************************)
(* The command queue.                                                      *)
(***************************************************************************)
\* executeCommand: re-queue at the head when not ready, otherwise bot.chat.
\* The promise it returns, resolved by a 500 ms timer, is dropped by its only
\* caller, so that the timer has no continuation and changes no state.
executeCommand(st, command) ==
  IF ~st.isReady \/ st.bot = null
  THEN [st EXCEPT !.commandQueue = <<command>> \o @]
  ELSE [st EXCEPT
          !.delivered = Append(@, [cmd |-> command, to |-> st.bot,
                                   phase |-> st.sessions[st.bot]])]

\* a variant of processCommandQueue that takes the commands from the tail
\* (pop for shift); C1 tells the two apart
RECURSIVE processCommandQueue_pop(_)
processCommandQueue_pop(st) ==
  IF Len(st.commandQueue) > 0 /\ st.isReady
  THEN Bind(executeCommand(
              [st EXCEPT !.commandQueue = SubSeq(@, 1, Len(@) - 1)],
              st.commandQueue[Len(st.commandQueue)]),
            LAMBDA next : processCommandQueue_pop(next))
  ELSE st

\* processCommandQueue: the loop does not wait for executeCommand's promise
RECURSIVE processCommandQueue(_)
processCommandQueue(st) ==
  IF Len(st.commandQueue) > 0 /\ st.isReady
  THEN Bind(executeCommand([st EXCEPT !.commandQueue = Tail(@)],
                           Head(st.commandQueue)),
            LAMBDA next : processCommandQueue(next))
  ELSE st

\* queueCommand: push, then drain when ready
queueCommand(st, command) ==
  Bind([st EXCEPT
          !.commandQueue = Append(@, command),
          !.enqueued = Append(@, [cmd |-> command, ready |-> st.isReady])],
       LAMBDA pushed :
         IF pushed.isReady THEN processCommandQueue(pushed) ELSE pushed)

(***************************************************************************)
(* The session: createBot and the handlers it registers.                   *)
(***************************************************************************)
createBot(st) ==
  [st EXCEPT !.sessions = Append(@, "connecting"),
             !.bot = Len(st.sessions) + 1]

\* a variant of the spawn handler that does not call processCommandQueue;
\* C5 tells the two apart
spawnHandler_noDrain(st) ==
  [st EXCEPT !.isReady = TRUE]

\* bot.once('spawn', ...)
spawnHandler(st) ==
  processCommandQueue([st EXCEPT !.isReady = TRUE])

\* bot.on('kicked', ...)
kickedHandler(st) ==
  [st EXCEPT !.isReady = FALSE, !.timers = @ + 1]

\* a variant of the end handler that empties commandQueue; C2 tells the two
\* apart
endHandler_clear(st) ==
  [st EXCEPT !.isReady = FALSE, !.timers = @ + 1, !.commandQueue = <<>>]

\* bot.on('end', ...)
endHandler(st) ==
  [st EXCEPT !.isReady = FALSE, !.timers = @ + 1]

(***************************************************************************)
(* processPurchase.                                                        *)
(***************************************************************************)
s_pay == <<"/","p","a","y"," ">>

MinOf(S) == CHOOSE i \in S : \A j \in S : i <= j

\* the catalog entries whose name equals productName, case-insensitively
NameHits(productName) ==
  { i \in 1..Len(CONFIG_products) :
      toLowerCase(CONFIG_products[i].config.name[1]) = toLowerCase(productName) }

\* a variant of the lookup that tries the name before the identifier; C9
\* tells the two apart
resolveProduct_nameFirst(data) ==
  IF data.productName # undefined /\ NameHits(data.productName[1]) # {}
  THEN [threw |-> FALSE, by |-> "name",
        config |-> Some(CONFIG_products[MinOf(NameHits(data.productName[1]))].config)]
  ELSE IF TruthyStr(data.productId) /\ GetProduct(data.productId[1]) # undefined
  THEN [threw |-> FALSE, by |-> "id", config |-> GetProduct(data.productId[1])]
  ELSE [threw |-> data.productName = undefined, by |-> "none", config |-> undefined]

\* the product lookup of processPurchase: by productId when CONFIG.products has
\* a value under it, otherwise the first entry, in Object.entries order, whose
\* name equals productName case-insensitively; data.productName.toLowerCase()
\* throws a TypeError when productName is null or undefined
resolveProduct(data) ==
  IF TruthyStr(data.productId) /\ GetProduct(data.productId[1]) # undefined
  THEN [threw |-> FALSE, by |-> "id", config |-> GetProduct(data.productId[1])]
  ELSE IF Len(CONFIG_products) > 0 /\ data.productName = undefined
  THEN [threw |-> TRUE, by |-> "none", config |-> undefined]
  ELSE Bind(NameHits(data.productName[1]), LAMBDA hits :
         IF hits = {}
         THEN [threw |-> FALSE, by |-> "none", config |-> undefined]
         ELSE [threw |-> FALSE, by |-> "name",
               config |-> Some(CONFIG_products[MinOf(hits)].config)])

\* a variant of processPurchase that enqueues the payment before the entry's
\* command; C6 tells the two apart
processPurchase_payFirst(st, data) ==
  IF ~TruthyStr(data.inGameName)
  THEN [st |-> st, outcome |-> "missing-recipient"]
  ELSE Bind(resolveProduct(data), LAMBDA r :
          IF r.threw THEN [st |-> st, outcome |-> "TypeError"]
          ELSE IF r.config = undefined
          THEN [st |-> st, outcome |-> "unknown-product"]
          ELSE LET productConfig == r.config[1]
                   totalAmount == Times(productConfig.amountPerUnit, data.quantity)
                   payCommand == s_pay \o data.inGameName[1] \o <<" ">>
                                   \o formatAmount(totalAmount)
                   st1 == queueCommand(st, payCommand)
               IN [st |-> IF TruthyStr(productConfig.onPurchaseCommand)
                          THEN queueCommand(st1, productConfig.onPurchaseCommand[1])
                          ELSE st1,
                   outcome |-> "success"])

\* a variant of processPurchase that enqueues a command for a product it does
\* not find; C8 tells the two apart
processPurchase_queueUnknown(st, data) ==
  IF ~TruthyStr(data.inGameName)
  THEN [st |-> st, outcome |-> "missing-recipient"]
  ELSE Bind(resolveProduct(data), LAMBDA r :
          IF r.threw THEN [st |-> st, outcome |-> "TypeError"]
          ELSE IF r.config = undefined
          THEN [st |-> queueCommand(st, s_pay \o data.inGameName[1] \o <<" ">>
                                          \o formatAmount(Number(0))),
                outcome |-> "unknown-product"]
          ELSE LET productConfig == r.config[1]
                   st1 == IF TruthyStr(productConfig.onPurchaseCommand)
                          THEN queueCommand(st, productConfig.onPurchaseCommand[1])
                          ELSE st
                   totalAmount == Times(productConfig.amountPerUnit, data.quantity)
                   payCommand == s_pay \o data.inGameName[1] \o <<" ">>
                                   \o formatAmount(totalAmount)
               IN [st |-> queueCommand(st1, payCommand), outcome |-> "success"])

\* processPurchase (src/index.js): the state after the call and the way it ended
processPurchase(st, data) ==
  IF ~TruthyStr(data.inGameName)
  THEN [st |-> st, outcome |-> "missing-recipient"]
  ELSE Bind(resolveProduct(data), LAMBDA r :
          IF r.threw THEN [st |-> st, outcome |-> "TypeError"]
          ELSE IF r.config = undefined
          THEN [st |-> st, outcome |-> "unknown-product"]
          ELSE LET productConfig == r.config[1]
                   st1 == IF TruthyStr(productConfig.onPurchaseCommand)
                          THEN queueCommand(st, productConfig.onPurchaseCommand[1])
                          ELSE st
                   totalAmount == Times(productConfig.amountPerUnit, data.quantity)
                   payCommand == s_pay \o data.inGameName[1] \o <<" ">>
                                   \o formatAmount(totalAmount)
               IN [st |-> queueCommand(st1, payCommand), outcome |-> "success"])

(***************************************************************************)
(* sendDiscordNotification and processPurchase of src/unnamed/part_000.    *)
(***************************************************************************)
\* CONFIG.discord.webhookUrl: validateConfig exits without it
webhookUrl == Some(<<"h","t","t","p","s",":","/","/","h","o","o","k">>)

s_Unknown == <<"U","n","k","n","o","w","n">>

\* what the fetch of a notification does: it resolves with an OK response,
\* resolves with a response that is not OK, or rejects
SinkResults == {"ok", "notOk", "throws"}

\* a variant of sendDiscordNotification that lets a failure of the fetch reach
\* its caller; C14 tells the two apart
sendDiscordNotification_rethrow(type, data, sink) ==
  [threw |-> sink # "ok",
   fetches |-> <<[type |-> type, data |-> data, result |-> sink]>>]

\* sendDiscordNotification: nothing without a webhookUrl; otherwise one fetch,
\* whose failure is logged inside the try block. The result is the fetches
\* made and whether an exception leaves the function.
sendDiscordNotification(type, data, sink) ==
  IF ~TruthyStr(webhookUrl)
  THEN [threw |-> FALSE, fetches |-> <<>>]
  ELSE [threw |-> FALSE,
        fetches |-> <<[type |-> type, data |-> data, result |-> sink]>>]

\* the result of a processPurchase call that awaited the notification n
Notified(st, outcome, n) ==
  [st |-> st, outcome |-> IF n.threw THEN "FetchError" ELSE outcome,
   events |-> n.fetches]

\* processPurchase of src/unnamed/part_000: the calls of queueCommand are those
\* of src/index.js, and every return is preceded by an awaited notification.
\* All changes of state precede the first await, so that the steps of other
\* handlers that run during the fetch see the state the call leaves.
processPurchaseNotify(st, data, sink) ==
  IF ~TruthyStr(data.inGameName)
  THEN Notified(st, "missing-recipient",
                sendDiscordNotification("payment_error",
                  [invoiceId |-> data.invoiceId], sink))
  ELSE Bind(resolveProduct(data), LAMBDA r :
          IF r.threw THEN [st |-> st, outcome |-> "TypeError", events |-> <<>>]
          ELSE IF r.config = undefined
          THEN Notified(st, "unknown-product",
                        sendDiscordNotification("payment_error",
                          [invoiceId |-> data.invoiceId], sink))
          ELSE LET productConfig == r.config[1]
                   st1 == IF TruthyStr(productConfig.onPurchaseCommand)
                          THEN queueCommand(st, productConfig.onPurchaseCommand[1])
                          ELSE st
                   totalAmount == Times(productConfig.amountPerUnit, data.quantity)
                   formattedAmount == formatAmount(totalAmount)
                   payCommand == s_pay \o data.inGameName[1] \o <<" ">>
                                   \o formattedAmount
               IN Notified(queueCommand(st1, payCommand), "success",
                           sendDiscordNotification("payment_success",
                             [inGameName |-> data.inGameName,
                              amount |-> formattedAmount,
                              productName |-> data.productName,
                              quantity |-> data.quantity,
                              invoiceId |-> OrStr(data.invoiceId, Some(s_Unknown))],
                             sink)))

(***************************************************************************)
(* History of one processPurchase call.                                    *)
(***************************************************************************)
Snapshot(st) ==
  [commandQueue |-> st.commandQueue, isReady |-> st.isReady, bot |-> st.bot,
   sessions |-> st.sessions]

Cmds(log) == [i \in 1..Len(log) |-> log[i].cmd]

\* processPurchase of the file that runs; src/index.js reports nothing
processPurchaseOf(st, data, sink) ==
  IF st.build = "part_000"
  THEN processPurchaseNotify(st, data, sink)
  ELSE Bind(processPurchase(st, data), LAMBDA r :
         [st |-> r.st, outcome |-> r.outcome, events |-> <<>>])

CallOf(st, data, sink) ==
  Bind(processPurchaseOf(st, data, sink), LAMBDA r :
    [st |-> r.st,
     call |-> [data |-> data, outcome |-> r.outcome, events |-> r.events,
               cmds |-> SubSeq(Cmds(r.st.enqueued), Len(st.enqueued) + 1,
                               Len(r.st.enqueued)),
               pre |-> Snapshot(st), post |-> Snapshot(r.st)]])

(***************************************************************************)
(* The webhook handlers.                                                   *)
(***************************************************************************)
s_MANUAL == <<"M","A","N","U","A","L">>
s_INV1 == <<"I","N","V","1">>
s_completed == <<"c","o","m","p","l","e","t","e","d">>
s_pending == <<"p","e","n","d","i","n","g">>

\* CONFIG.customFieldName, by default
customFieldName == <<"i","n","_","g","a","m","e","_","n","a","m","e">>

\* the outcomes of a processPurchase call that ended with an exception
Thrown == {"TypeError", "FetchError"}

\* app.post('/webhook/manual'): a 400 without inGameName or productId, otherwise
\* one processPurchase call; an exception is answered with a 500
manualHandler(st, body, sink) ==
  IF ~TruthyStr(body.inGameName) \/ ~TruthyStr(body.productId)
  THEN [st |-> st, status |-> 400, calls |-> <<>>]
  ELSE LET found == GetProduct(body.productId[1])
           data == [inGameName |-> body.inGameName,
                    productId |-> body.productId,
                    productName |->
                      OrStr(IF found = undefined THEN undefined ELSE found[1].name,
                            Some(n_UnknownProduct)),
                    quantity |-> OrNum(body.quantity, 1),
                    invoiceId |-> Some(s_MANUAL)]
       IN Bind(CallOf(st, data, sink), LAMBDA c :
            [st |-> c.st,
             status |-> IF c.call.outcome \in Thrown THEN 500 ELSE 200,
             calls |-> <<c.call>>])

\* obj[key] of a JSON object given as its list of name/value pairs
MapGet(obj, key) ==
  LET hits == { i \in 1..Len(obj) : obj[i].name = key }
  IN IF hits = {} THEN undefined ELSE obj[MinOf(hits)].value

\* the recipient lookup of the sellauth handler
sellauthInGameName(invoice) ==
  IF invoice.custom_fields # undefined
  THEN MapGet(invoice.custom_fields[1], customFieldName)
  ELSE IF invoice.custom_field_values # undefined
  THEN MapGet(invoice.custom_field_values[1], customFieldName)
  ELSE undefined

\* the loop over invoice.items: one processPurchase call per item, on the one
\* data object; an exception leaves the loop (processPurchase of src/index.js
\* makes no fetch, whatever the sink would answer)
RECURSIVE processItems(_, _, _, _)
processItems(st, data, items, calls) ==
  IF items = <<>> THEN [st |-> st, calls |-> calls, threw |-> FALSE]
  ELSE LET item == Head(items)
           d == [data EXCEPT !.productName = OrStr(item.product_name, item.name),
                             !.quantity = OrNum(item.quantity, 1)]
       IN Bind(CallOf(st, d, "ok"), LAMBDA c :
            IF c.call.outcome \in Thrown
            THEN [st |-> c.st, calls |-> Append(calls, c.call), threw |-> TRUE]
            ELSE processItems(c.st, d, Tail(items), Append(calls, c.call)))

\* app.post('/webhook/sellauth')
sellauthHandler(st, invoice) ==
  LET data == [invoiceId |-> OrStr(invoice.id, invoice.invoice_id),
               productName |-> undefined, quantity |-> 1,
               inGameName |-> sellauthInGameName(invoice),
               productId |-> undefined]
  IN IF invoice.status # Some(s_completed)
     THEN [st |-> st, status |-> 200, calls |-> <<>>, items |-> undefined]
     ELSE IF ~TruthyStr(data.inGameName)
     THEN [st |-> st, status |-> 200, calls |-> <<>>, items |-> undefined]
     ELSE IF invoice.items = undefined
     THEN [st |-> st, status |-> 200, calls |-> <<>>, items |-> undefined]
     ELSE Bind(processItems(st, data, invoice.items[1], <<>>), LAMBDA r :
            [st |-> r.st, status |-> IF r.threw THEN 500 ELSE 200,
             calls |-> r.calls, items |-> invoice.items])

(***************************************************************************)
(* parseDiscordWebhook of src/unnamed/part_000 (the field-list parser) and *)
(* the /webhook/discord handler.                                           *)
(***************************************************************************)
s_purchase == <<"p","u","r","c","h","a","s","e">>
s_invoice == <<"i","n","v","o","i","c","e">>
s_order == <<"o","r","d","e","r">>
s_product == <<"p","r","o","d","u","c","t">>
s_item == <<"i","t","e","m">>
s_quantity == <<"q","u","a","n","t","i","t","y">>
s_amount == <<"a","m","o","u","n","t">>
s_username == <<"u","s","e","r","n","a","m","e">>
s_ign == <<"i","g","n">>
s_product_id == <<"p","r","o","d","u","c","t"," ","i","d">>
s_id == <<"i","d">>

\* String.prototype.includes
includes(s, sub) ==
  \E i \in 1..(Len(s) - Len(sub) + 1) : SubSeq(s, i, i + Len(sub) - 1) = sub

IsSpace(c) == c \in {" ", "\t", "\n"}
IsDigit(c) == c \in {"0","1","2","3","4","5","6","7","8","9"}
DigitValue(c) == CHOOSE d \in 0..9 : Digit(d) = c

RECURSIVE TrimStart(_)
TrimStart(s) == IF s # <<>> /\ IsSpace(Head(s)) THEN TrimStart(Tail(s)) ELSE s

RECURSIVE TrimEnd(_)
TrimEnd(s) ==
  IF s # <<>> /\ IsSpace(s[Len(s)]) THEN TrimEnd(SubSeq(s, 1, Len(s) - 1)) ELSE s

\* String.prototype.trim
trim(s) == TrimEnd(TrimStart(s))

\* the value of the longest prefix of digits of s, after acc
RECURSIVE DigitsPrefix(_, _)
DigitsPrefix(s, acc) ==
  IF s # <<>> /\ IsDigit(Head(s))
  THEN DigitsPrefix(Tail(s), 10 * acc + DigitValue(Head(s)))
  ELSE acc

\* parseInt of a string: leading white space, a sign, then decimal digits;
\* undefined stands for NaN
parseInt(value) ==
  LET t == TrimStart(value)
      signed == t # <<>> /\ Head(t) \in {"-", "+"}
      digits == IF signed THEN Tail(t) ELSE t
  IN IF digits = <<>> \/ ~IsDigit(Head(digits)) THEN undefined
     ELSE IF signed /\ Head(t) = "-" THEN Some(0 - DigitsPrefix(digits, 0))
     ELSE Some(DigitsPrefix(digits, 0))

\* the number parseInt gave, or d when it gave NaN (the test !isNaN(qty))
OrNumber(parsed, d) == IF parsed = undefined THEN d ELSE parsed[1]

\* String.prototype.split('\n')
RECURSIVE SplitLines(_, _)
SplitLines(s, line) ==
  IF s = <<>> THEN <<line>>
  ELSE IF Head(s) = "\n" THEN <<line>> \o SplitLines(Tail(s), <<>>)
  ELSE SplitLines(Tail(s), Append(line, Head(s)))

\* line.match(/:\s*(.+)/): the text after the first colon that has a character
\* after it; the caller trims the group, so the white space \s* takes is
\* stripped in either case
MatchAfterColon(line) ==
  LET hits == { i \in 1..(Len(line) - 1) : line[i] = ":" }
  IN IF hits = {} THEN undefined
     ELSE Some(SubSeq(line, MinOf(hits) + 1, Len(line)))

NewData ==
  [invoiceId |-> undefined, productName |-> undefined, quantity |-> 1,
   inGameName |-> undefined, productId |-> undefined]

\* one iteration of the loop over embed.fields
parseField(data, field) ==
  LET name == toLowerCase(field.name)
      value == field.value
  IN IF includes(name, s_invoice) \/ includes(name, s_order)
     THEN [data EXCEPT !.invoiceId = Some(value)]
     ELSE IF includes(name, s_product) \/ includes(name, s_item)
     THEN [data EXCEPT !.productName = Some(value)]
     ELSE IF includes(name, s_quantity) \/ includes(name, s_amount)
     THEN IF parseInt(value) # undefined
          THEN [data EXCEPT !.quantity = parseInt(value)[1]]
          ELSE data
     ELSE IF \/ includes(name, customFieldName)
             \/ includes(name, s_username)
             \/ includes(name, s_ign)
     THEN [data EXCEPT !.inGameName = Some(value)]
     ELSE IF includes(name, s_product_id) \/ includes(name, s_id)
     THEN [data EXCEPT !.productId = Some(value)]
     ELSE data

RECURSIVE parseFields(_, _)
parseFields(data, fields) ==
  IF fields = <<>> THEN data
  ELSE parseFields(parseField(data, Head(fields)), Tail(fields))

\* one iteration of the loop over the lines of embed.description
parseLine(data, line) ==
  IF \/ includes(toLowerCase(line), customFieldName)
     \/ includes(toLowerCase(line), s_username)
  THEN IF MatchAfterColon(line) # undefined /\ ~TruthyStr(data.inGameName)
       THEN [data EXCEPT !.inGameName = Some(trim(MatchAfterColon(line)[1]))]
       ELSE data
  ELSE data

RECURSIVE parseLines(_, _)
parseLines(data, lines) ==
  IF lines = <<>> THEN data
  ELSE parseLines(parseLine(data, Head(lines)), Tail(lines))

\* parseDiscordWebhook: undefined stands for null
parseDiscordWebhook(body) ==
  IF body.embeds = undefined \/ body.embeds[1] = <<>> THEN undefined
  ELSE LET embed == body.embeds[1][1]
       IN IF ~TruthyStr(embed.title)
             \/ ~includes(toLowerCase(embed.title[1]), s_purchase)
          THEN undefined
          ELSE LET d1 == IF embed.fields # undefined
                         THEN parseFields(NewData, embed.fields[1])
                         ELSE NewData
               IN Some(IF TruthyStr(embed.description)
                       THEN parseLines(d1, SplitLines(embed.description[1], <<>>))
                       ELSE d1)

(***************************************************************************)
(* parseDiscordWebhook of src/index.js (the label-block parser).           *)
(***************************************************************************)
s_sale == <<"s","a","l","e">>
l_InvoiceID == <<"I","n","v","o","i","c","e"," ","I","D">>
l_Product == <<"P","r","o","d","u","c","t">>
l_Price == <<"P","r","i","c","e">>
l_InGameName == <<"I","n"," ","g","a","m","e"," ","n","a","m","e">>

\* line.replace(/\*\*/g, '')
RECURSIVE StripBold(_)
StripBold(s) ==
  IF Len(s) >= 2 /\ s[1] = "*" /\ s[2] = "*" THEN StripBold(SubSeq(s, 3, Len(s)))
  ELSE IF s = <<>> THEN <<>>
  ELSE <<Head(s)>> \o StripBold(Tail(s))

\* the end of the run of digits of s that starts at i
RECURSIVE DigitsEnd(_, _)
DigitsEnd(s, i) ==
  IF i < Len(s) /\ IsDigit(s[i + 1]) THEN DigitsEnd(s, i + 1) ELSE i

\* priceLine.match(/(\d+)\s*x/): the group of the leftmost match, a maximal
\* run of digits that white space and an x follow
MatchQuantity(s) ==
  LET starts == { i \in 1..Len(s) :
                    /\ IsDigit(s[i])
                    /\ (i = 1 \/ ~IsDigit(s[i - 1]))
                    /\ LET rest == TrimStart(SubSeq(s, DigitsEnd(s, i) + 1, Len(s)))
                       IN rest # <<>> /\ Head(rest) = "x" }
  IN IF starts = {} THEN undefined
     ELSE Some(SubSeq(s, MinOf(starts), DigitsEnd(s, MinOf(starts))))

\* one iteration of the loop over the lines of the description (data.price is
\* written and never read, and is left out)
parseLabel(data, lines, i) ==
  LET cleanLine == StripBold(trim(lines[i]))
      next == trim(lines[i + 1])
  IN IF i + 1 > Len(lines) THEN data
     ELSE IF cleanLine = l_InvoiceID THEN [data EXCEPT !.invoiceId = Some(next)]
     ELSE IF cleanLine = l_Product THEN [data EXCEPT !.productName = Some(next)]
     ELSE IF cleanLine = l_Price
     THEN IF MatchQuantity(next) # undefined
          THEN [data EXCEPT !.quantity = parseInt(MatchQuantity(next)[1])[1]]
          ELSE data
     ELSE IF cleanLine = l_InGameName \/ cleanLine = customFieldName
     THEN [data EXCEPT !.inGameName = Some(next)]
     ELSE data

RECURSIVE parseLabels(_, _, _)
parseLabels(data, lines, i) ==
  IF i > Len(lines) THEN data
  ELSE parseLabels(parseLabel(data, lines, i), lines, i + 1)

\* parseDiscordWebhook of src/index.js: undefined stands for null
parseDiscordWebhookLabelBlock(body) ==
  IF body.embeds = undefined \/ body.embeds[1] = <<>> THEN undefined
  ELSE LET embed == body.embeds[1][1]
       IN IF ~TruthyStr(embed.title)
             \/ ~includes(toLowerCase(embed.title[1]), s_sale)
          THEN undefined
          ELSE IF ~TruthyStr(embed.description) THEN undefined
          ELSE Bind(parseLabels(NewData, SplitLines(embed.description[1], <<>>), 1),
                    LAMBDA data :
                      IF ~TruthyStr(data.inGameName) THEN undefined ELSE Some(data))

\* app.post('/webhook/discord'), with the parseDiscordWebhook of the file that
\* runs
discordHandler(st, body, sink) ==
  Bind(IF st.build = "part_000" THEN parseDiscordWebhook(body)
       ELSE parseDiscordWebhookLabelBlock(body),
       LAMBDA purchaseData :
    IF purchaseData = undefined
    THEN [st |-> st, status |-> 200, calls |-> <<>>]
    ELSE Bind(CallOf(st, purchaseData[1], sink), LAMBDA c :
           [st |-> c.st,
            status |-> IF c.call.outcome \in Thrown THEN 500 ELSE 200,
            calls |-> <<c.call>>]))

(***************************************************************************)
(* The requests the model sends.                                           *)
(***************************************************************************)
\* the bodies of the specification of the queue: a purchase of two commands,
\* a purchase of one command and an unknown product
QueueBodies ==
  { [inGameName |-> Some(Steve), productId |-> Some(k_gold), quantity |-> undefined],
    [inGameName |-> Some(Steve), productId |-> Some(k_iron), quantity |-> undefined],
    [inGameName |-> Some(Steve), productId |-> Some(k_nope), quantity |-> undefined] }

ManualBodies ==
  [inGameName : {undefined, Some(Steve)},
   productId : {undefined, Some(k_gold), Some(k_vip), Some(k_nope),
                Some(k_constructor)},
   quantity : {undefined, Some(MaxQuantity), Some(0 - 2)}]

Items ==
  { [product_name |-> Some(n_Gold), name |-> undefined, quantity |-> undefined],
    [product_name |-> undefined, name |-> Some(n_Iron), quantity |-> Some(1)],
    [product_name |-> Some(n_Wood), name |-> undefined, quantity |-> Some(1)],
    [product_name |-> undefined, name |-> undefined, quantity |-> Some(2)] }

RECURSIVE SeqsUpTo(_, _)
SeqsUpTo(S, n) ==
  IF n = 0 THEN { <<>> }
  ELSE LET shorter == SeqsUpTo(S, n - 1)
       IN shorter \cup { Append(q, x) : q \in shorter, x \in S }

cf_object == [custom_fields |-> Some(<<[name |-> customFieldName, value |-> Some(Steve)]>>),
              custom_field_values |-> undefined]
cf_array == [custom_fields |-> undefined,
             custom_field_values |->
               Some(<<[name |-> customFieldName, value |-> Some(Alex)]>>)]
cf_both == [custom_fields |-> Some(<<>>),
            custom_field_values |->
              Some(<<[name |-> customFieldName, value |-> Some(Alex)]>>)]
cf_none == [custom_fields |-> undefined, custom_field_values |-> undefined]

Invoice(status, cf, items) ==
  [id |-> Some(s_INV1), invoice_id |-> undefined, status |-> status,
   custom_fields |-> cf.custom_fields,
   custom_field_values |-> cf.custom_field_values, items |-> items]

Invoices ==
  { Invoice(Some(s_completed), cf_object, it) :
      it \in {undefined} \cup { Some(q) : q \in SeqsUpTo(Items, MaxItems) } }
  \cup
  { Invoice(Some(s_completed), cf, Some(<<it>>)) :
      cf \in {cf_array, cf_both, cf_none}, it \in Items }
  \cup
  { Invoice(s, cf_object, Some(<<it>>)) :
      s \in {undefined, Some(s_pending)}, it \in Items }

f_Product == <<"P","r","o","d","u","c","t">>
f_ID == <<"I","D">>
f_Username == <<"U","s","e","r","n","a","m","e">>
f_Quantity == <<"Q","u","a","n","t","i","t","y">>
f_Invoice == <<"I","n","v","o","i","c","e">>
t_NewPurchase == <<"N","e","w"," ","P","u","r","c","h","a","s","e">>
t_Hello == <<"H","e","l","l","o">>
d_username_Alex == <<"u","s","e","r","n","a","m","e",":"," ","A","l","e","x","\n","t","h","x">>

f_Item == <<"I","t","e","m">>
t_NewSale == <<"N","e","w"," ","S","a","l","e">>

\* "**Invoice ID**\nINV1\n**Product**\nGold\n**Price**\n3 x $1\nIn game name\n Alex "
d_sale_Gold_3 ==
  <<"*","*">> \o l_InvoiceID \o <<"*","*","\n">> \o s_INV1 \o <<"\n","*","*">>
  \o l_Product \o <<"*","*","\n">> \o n_Gold \o <<"\n","*","*">> \o l_Price
  \o <<"*","*","\n","3"," ","x"," ","$","1","\n">> \o l_InGameName
  \o <<"\n"," ">> \o Alex \o <<" ">>

\* "Product\nIron\nPrice\n0x\nin_game_name\nSteve"
d_sale_Iron_0 ==
  l_Product \o <<"\n">> \o n_Iron \o <<"\n">> \o l_Price \o <<"\n","0","x","\n">>
  \o customFieldName \o <<"\n">> \o Steve

\* "Price\n$5\nIn game name\nSteve"
d_sale_noProduct ==
  l_Price \o <<"\n","$","5","\n">> \o l_InGameName \o <<"\n">> \o Steve

\* "Product\nGold\nIn game name"
d_sale_noName == l_Product \o <<"\n">> \o n_Gold \o <<"\n">> \o l_InGameName

F(name, value) == [name |-> name, value |-> value]

Embed(title, fields, description) ==
  [embeds |-> Some(<<[title |-> title, fields |-> fields,
                      description |-> description]>>)]

Embeds ==
  { [embeds |-> undefined],
    [embeds |-> Some(<<>>)],
    Embed(Some(t_Hello), Some(<<F(f_Username, Steve)>>), undefined),
    Embed(undefined, Some(<<F(f_Username, Steve)>>), undefined),
    \* productId a catalog key, productName the name of another entry
    Embed(Some(t_NewPurchase),
          Some(<<F(f_Invoice, s_INV1), F(f_Product, n_Iron), F(f_ID, k_gold),
                 F(f_Username, Steve)>>), undefined),
    Embed(Some(t_NewPurchase),
          Some(<<F(f_Product, n_Gold), F(f_ID, k_iron), F(f_Username, Steve),
                 F(f_Quantity, <<"2">>)>>), undefined),
    \* productId no catalog key, productName matching two entries
    Embed(Some(t_NewPurchase),
          Some(<<F(f_Product, n_GOLD), F(f_ID, k_nope), F(f_Username, Alex)>>),
          undefined),
    \* no productId
    Embed(Some(t_NewPurchase),
          Some(<<F(f_Product, n_gold), F(f_Quantity, <<"2">>),
                 F(f_Username, Steve)>>), undefined),
    Embed(Some(t_NewPurchase),
          Some(<<F(f_Product, n_Iron), F(f_Quantity, <<"x">>)>>),
          Some(d_username_Alex)),
    \* no product field
    Embed(Some(t_NewPurchase),
          Some(<<F(f_Username, Steve), F(f_ID, k_nope)>>), undefined),
    Embed(Some(t_NewPurchase), Some(<<F(f_Username, Steve)>>), undefined),
    \* unknown product, no recipient
    Embed(Some(t_NewPurchase),
          Some(<<F(f_Product, n_Wood), F(f_Username, Steve)>>), undefined),
    Embed(Some(t_NewPurchase), Some(<<F(f_Product, n_Gold)>>), undefined),
    Embed(Some(t_NewPurchase), undefined, undefined),
    \* two fields of one category, a quantity of zero
    Embed(Some(t_NewPurchase),
          Some(<<F(f_Product, n_Gold), F(f_Item, n_Iron), F(f_Username, Steve)>>),
          undefined),
    Embed(Some(t_NewPurchase),
          Some(<<F(f_Product, n_Iron), F(f_Quantity, <<"0">>),
                 F(f_Username, Steve)>>), undefined),
    \* label blocks
    Embed(Some(t_NewSale), undefined, Some(d_sale_Gold_3)),
    Embed(Some(t_NewSale), undefined, Some(d_sale_Iron_0)),
    Embed(Some(t_NewSale), undefined, Some(d_sale_noProduct)),
    Embed(Some(t_NewSale), undefined, Some(d_sale_noName)),
    Embed(Some(t_NewSale), undefined, undefined) }

(***************************************************************************)
(* Actions.                                                                *)
(***************************************************************************)
NoRequest ==
  [endpoint |-> "none", body |-> undefined, status |-> 0, calls |-> <<>>,
   items |-> undefined]

Builds == {"index.js", "part_000"}

\* the module's top level and start(): createBot() is called once
Init ==
  /\ build \in Builds
  /\ bot = 1
  /\ isReady = FALSE
  /\ commandQueue = <<>>
  /\ sessions = <<"connecting">>
  /\ timers = 0
  /\ enqueued = <<>>
  /\ delivered = <<>>
  /\ lastRequest = NoRequest

\* the session object s emits 'spawn' (the handler is registered with once)
Spawn ==
  \E s \in 1..Len(sessions) :
    /\ sessions[s] = "connecting"
    /\ \E st \in {spawnHandler([State EXCEPT !.sessions[s] = "spawned"])} :
         Commit(st)
    /\ lastRequest' = NoRequest

\* the session object s emits 'kicked'
Kicked ==
  \E s \in 1..Len(sessions) :
    /\ sessions[s] \in {"connecting", "spawned"}
    /\ \E st \in {kickedHandler([State EXCEPT !.sessions[s] = "kicked"])} :
         Commit(st)
    /\ lastRequest' = NoRequest

\* the session object s emits 'end'
End ==
  \E s \in 1..Len(sessions) :
    /\ sessions[s] \in {"connecting", "spawned", "kicked"}
    /\ \E st \in {endHandler([State EXCEPT !.sessions[s] = "ended"])} :
         Commit(st)
    /\ lastRequest' = NoRequest

\* a 5 second reconnect timer fires
ReconnectTimer ==
  /\ timers > 0
  /\ Len(sessions) < MaxSessions
  /\ \E st \in {createBot([State EXCEPT !.timers = @ - 1])} : Commit(st)
  /\ lastRequest' = NoRequest

\* a POST to /webhook/manual with a body of B, the sink answering as in S
ManualWebhook(B, S) ==
  \E body \in B, sink \in S :
    \E r \in {manualHandler(State, body, sink)} :
       /\ Commit(r.st)
       /\ lastRequest' = [endpoint |-> "manual", body |-> Some(body),
                          status |-> r.status, calls |-> r.calls,
                          items |-> undefined]

\* a POST to /webhook/sellauth, an endpoint of src/index.js
SellauthWebhook ==
  /\ build = "index.js"
  /\ \E invoice \in Invoices :
       \E r \in {sellauthHandler(State, invoice)} :
          /\ Commit(r.st)
          /\ lastRequest' = [endpoint |-> "sellauth", body |-> Some(invoice),
                             status |-> r.status, calls |-> r.calls,
                             items |-> r.items]

\* a POST to /webhook/discord
DiscordWebhook ==
  \E body \in Embeds, sink \in SinkResults :
    \E r \in {discordHandler(State, body, sink)} :
       /\ Commit(r.st)
       /\ lastRequest' = [endpoint |-> "discord", body |-> Some(body),
                          status |-> r.status, calls |-> r.calls,
                          items |-> undefined]

\* The queue and the session: every session event, and purchases through the
\* manual endpoint while at most MaxCommands commands have been enqueued.
Next ==
  \/ Spawn
  \/ Kicked
  \/ End
  \/ ReconnectTimer
  \/ ManualWebhook(QueueBodies, {"ok"}) /\ Len(enqueued') <= MaxCommands

Spec == Init /\ [][Next]_vars

\* The purchases during the life of the first session: its events, and
\* requests to the three endpoints while at most MaxEarlier commands have been
\* enqueued by earlier requests.
NextPurchase ==
  \/ Spawn
  \/ Kicked
  \/ End
  \/ Len(enqueued) <= MaxEarlier /\ ManualWebhook(ManualBodies, SinkResults)
  \/ Len(enqueued) <= MaxEarlier /\ SellauthWebhook
  \/ Len(enqueued) <= MaxEarlier /\ DiscordWebhook

SpecPurchase == Init /\ [][NextPurchase]_vars

(***************************************************************************)
(* Properties of the queue and the session (specification Spec).           *)
(***************************************************************************)
\* a session object emits 'spawn' in this step
SpawnStep ==
  \E s \in 1..Len(sessions) :
    sessions[s] = "connecting" /\ sessions'[s] = "spawned"

\* C1: a command enqueued while isReady is false is handed to the session by
\* no step before the next spawn (the step that hands it over is a spawn),
\* and the commands are handed over in the order in which they were enqueued.
C1_DisconnectedEnqueueWaitsForSpawn ==
  [][/\ Len(delivered') <= Len(enqueued')
     /\ \A i \in 1..Len(delivered') : delivered'[i].cmd = enqueued'[i].cmd
     /\ \A i \in (Len(delivered) + 1)..Len(delivered') :
          ~enqueued'[i].ready => SpawnStep]_vars

\* two different commands, both enqueued while disconnected, have been handed over
C1_Witness ==
  /\ Len(delivered) >= 2
  /\ ~enqueued[1].ready
  /\ ~enqueued[2].ready
  /\ enqueued[1].cmd # enqueued[2].cmd

\* C2: the commands handed to the session followed by the pending list are
\* the commands ever enqueued, in enqueue order; nothing is dropped,
\* duplicated or reordered, also across disconnections.
C2_NothingLostOrReordered ==
  Cmds(delivered) \o commandQueue = Cmds(enqueued)

\* a command was handed over, another is pending, and the session that
\* received the first has ended
C2_Witness ==
  /\ delivered # <<>>
  /\ commandQueue # <<>>
  /\ \E i \in 1..Len(delivered) : sessions[delivered[i].to] = "ended"

\* C3 (as claimed): no step hands more than one command to the session, the
\* next hand-off waiting for the 500 ms delay of the previous one.
C3_OneHandOffPerStep ==
  [][Len(delivered') <= Len(delivered) + 1]_vars

\* C4 (as claimed): every command is handed to a session object that has
\* spawned and has not ended or been kicked since.
C4_HandedToConnectedSession ==
  \A i \in 1..Len(delivered) : delivered[i].phase = "spawned"

\* C5: whenever the state is connected no command is pending: the spawn
\* handler and every enqueue in state connected drain the whole list.
C5_ConnectedMeansDrained ==
  isReady => commandQueue = <<>> /\ Len(delivered) = Len(enqueued)

\* connected, after handing over a command enqueued while disconnected and a
\* command enqueued while connected
C5_Witness ==
  /\ isReady
  /\ \E i \in 1..Len(delivered) : ~enqueued[i].ready
  /\ \E i \in 1..Len(delivered) : enqueued[i].ready

\* the session objects that have not been kicked and have not ended
LiveSessions == { s \in 1..Len(sessions) : sessions[s] \in {"connecting", "spawned"} }

\* C18 (as claimed): a loss of the session schedules one reconnect: the pending
\* reconnect timers and the live session objects are together at most one, so
\* that a kick followed by the end of the same session creates one session.
C18_OneReconnectPerLoss ==
  timers + Cardinality(LiveSessions) <= 1

(***************************************************************************)
(* Properties of processPurchase (specification SpecPurchase).             *)
(***************************************************************************)
Calls == { lastRequest.calls[i] : i \in 1..Len(lastRequest.calls) }

CatalogConfigs == { CONFIG_products[i].config : i \in 1..Len(CONFIG_products) }

\* the commands of a purchase of the entry config: the entry's command when
\* it has one, then the payment
ExpectedCommands(config, data) ==
  (IF TruthyStr(config.onPurchaseCommand)
   THEN <<config.onPurchaseCommand[1]>> ELSE <<>>)
  \o << s_pay \o data.inGameName[1] \o <<" ">>
          \o formatAmount(Times(config.amountPerUnit, data.quantity)) >>

\* C6: a call with a recipient whose product resolves to a catalog entry
\* enqueues exactly the entry's onPurchaseCommand, if it has one, and then one
\* payment command "/pay <recipient> <format(amountPerUnit * quantity)>".
C6_CommandsOfAPurchase ==
  \A c \in Calls :
    LET r == resolveProduct(c.data)
    IN (/\ TruthyStr(c.data.inGameName)
        /\ ~r.threw
        /\ r.config # undefined
        /\ r.config[1] \in CatalogConfigs)
       => /\ c.outcome = "success"
          /\ c.cmds = ExpectedCommands(r.config[1], c.data)

\* one request bought an entry that has a command and an entry that has none
C6_Witness ==
  /\ \E c \in Calls : c.outcome = "success" /\ Len(c.cmds) = 2
  /\ \E c \in Calls : c.outcome = "success" /\ Len(c.cmds) = 1

\* C7 (as claimed): a call with a recipient whose productIdentifier is absent
\* or no catalog key and whose productName, possibly absent, equals no
\* displayName ends as unknown-product, enqueues nothing, and the request is
\* answered with status 200.
C7_UnknownProduct ==
  \A c \in Calls :
    (/\ TruthyStr(c.data.inGameName)
     /\ ~TruthyStr(c.data.productId) \/ c.data.productId[1] \notin CatalogKeys
     /\ c.data.productName = undefined \/ NameHits(c.data.productName[1]) = {})
    => /\ c.outcome = "unknown-product"
       /\ c.cmds = <<>>
       /\ lastRequest.status = 200

\* C8: a call that ends as missing-recipient or unknown-product leaves the
\* pending list, isReady, bot and the sessions as they were.
C8_RejectedPurchaseChangesNothing ==
  \A c \in Calls :
    c.outcome \in {"missing-recipient", "unknown-product"} => c.post = c.pre

\* a call ended as unknown-product while commands were pending
C8_Witness ==
  \E c \in Calls : c.outcome = "unknown-product" /\ c.pre.commandQueue # <<>>

KeyIndex(key) == CHOOSE i \in 1..Len(CONFIG_products) : CONFIG_products[i].key = key

\* C9: a productIdentifier that is a catalog key decides the entry, whatever
\* productName is; an entry is taken by its name only when productIdentifier
\* is absent or no catalog key, and it is then the first entry, in catalog
\* order, whose displayName equals productName case-insensitively.
C9_IdentifierBeforeName ==
  \A c \in Calls :
    TruthyStr(c.data.inGameName) =>
      /\ (TruthyStr(c.data.productId) /\ c.data.productId[1] \in CatalogKeys)
           => c.cmds = ExpectedCommands(
                         CONFIG_products[KeyIndex(c.data.productId[1])].config,
                         c.data)
      /\ \A i \in 1..Len(CONFIG_products) :
           (/\ c.outcome = "success"
            /\ c.cmds = ExpectedCommands(CONFIG_products[i].config, c.data)
            /\ ~(TruthyStr(c.data.productId)
                 /\ c.data.productId[1] \in CatalogKeys))
           => /\ c.data.productName # undefined
              /\ NameHits(c.data.productName[1]) # {}
              /\ i = MinOf(NameHits(c.data.productName[1]))

\* a call whose productId is the key of one entry and whose productName is
\* the name of another
C9_Witness ==
  \E c \in Calls :
    /\ c.outcome = "success"
    /\ TruthyStr(c.data.productId)
    /\ c.data.productId[1] \in CatalogKeys
    /\ c.data.productName # undefined
    /\ NameHits(c.data.productName[1]) # {}
    /\ KeyIndex(c.data.productId[1]) \notin NameHits(c.data.productName[1])

\* C10 (as claimed): a completed invoice with a recipient and N items makes N
\* processPurchase calls, the i-th with the invoice's id and recipient and
\* the i-th item's product name and quantity, whatever the outcome of the
\* calls before it.
C10_OneCallPerItem ==
  (lastRequest.endpoint = "sellauth" /\ lastRequest.items # undefined) =>
    /\ Len(lastRequest.calls) = Len(lastRequest.items[1])
    /\ \A i \in 1..Len(lastRequest.calls) :
         LET item == lastRequest.items[1][i]
             data == lastRequest.calls[i].data
         IN /\ data.productName = OrStr(item.product_name, item.name)
            /\ data.quantity = OrNum(item.quantity, 1)
            /\ data.invoiceId = lastRequest.calls[1].data.invoiceId
            /\ data.inGameName = lastRequest.calls[1].data.inGameName

\* the two lookups of the recipient of an invoice, each on its own
MapLookup(invoice) ==
  IF invoice.custom_fields = undefined THEN undefined
  ELSE MapGet(invoice.custom_fields[1], customFieldName)

ListLookup(invoice) ==
  IF invoice.custom_field_values = undefined THEN undefined
  ELSE MapGet(invoice.custom_field_values[1], customFieldName)

\* C11 (as claimed): for a completed invoice with items the recipient is the
\* value under the configured name in the custom-fields object if there is
\* one, otherwise the value of the entry of that name in the custom-field
\* list; the invoice is rejected for a missing recipient only if neither
\* lookup yields a value.
C11_RecipientLookupOrder ==
  (/\ lastRequest.endpoint = "sellauth"
   /\ lastRequest.body[1].status = Some(s_completed)
   /\ lastRequest.body[1].items # undefined
   /\ lastRequest.body[1].items[1] # <<>>)
  => LET invoice == lastRequest.body[1]
         expected == OrStr(MapLookup(invoice), ListLookup(invoice))
     IN IF TruthyStr(expected)
        THEN /\ lastRequest.calls # <<>>
             /\ \A c \in Calls : c.data.inGameName = expected
        ELSE lastRequest.calls = <<>>

\* C12 (as claimed): every endpoint answers every request with status 200,
\* the rejections included, or with status 500 when an exception was thrown,
\* and with no other status; a call that did not end as a success enqueued
\* nothing.
C12_SuccessOrServerError ==
  lastRequest.endpoint # "none" =>
    /\ lastRequest.status \in {200, 500}
    /\ lastRequest.status = 500 => \E c \in Calls : c.outcome \in Thrown
    /\ \A c \in Calls : c.outcome # "success" => c.cmds = <<>>

(***************************************************************************)
(* Properties of the notifications (specification SpecPurchase).           *)
(***************************************************************************)
\* C13 (as claimed): every processPurchase call reports one event to the sink,
\* payment_success for the outcome success and payment_error for the outcomes
\* missing-recipient and unknown-product.
C13_OneEventPerCall ==
  \A c \in Calls :
    /\ c.outcome = "success"
         => Len(c.events) = 1 /\ c.events[1].type = "payment_success"
    /\ c.outcome \in {"missing-recipient", "unknown-product"}
         => Len(c.events) = 1 /\ c.events[1].type = "payment_error"

\* C14: when the fetch of a notification fails (it rejects, or the response is
\* not OK) the call makes no second fetch, the request is answered with status
\* 200, and the commands of the purchase are enqueued or handed over as they
\* are when the fetch succeeds: the commands of C6, pending behind those that
\* were pending if the state is disconnected, handed over otherwise.
C14_FailedNotificationOnlyLogged ==
  \A c \in Calls :
    (\E i \in 1..Len(c.events) : c.events[i].result # "ok") =>
      /\ Len(c.events) = 1
      /\ lastRequest.status = 200
      /\ c.outcome \in {"success", "missing-recipient", "unknown-product"}
      /\ c.post.isReady = c.pre.isReady
      /\ c.post.bot = c.pre.bot
      /\ c.post.sessions = c.pre.sessions
      /\ IF c.outcome = "success"
         THEN /\ c.cmds = ExpectedCommands(resolveProduct(c.data).config[1], c.data)
              /\ c.post.commandQueue =
                   IF c.pre.isReady THEN <<>> ELSE c.pre.commandQueue \o c.cmds
         ELSE c.cmds = <<>> /\ c.post.commandQueue = c.pre.commandQueue

\* the fetch of the payment_success event of a purchase rejected, and the
\* commands of the purchase are pending
C14_Witness ==
  \E c \in Calls :
    /\ c.outcome = "success"
    /\ Len(c.events) = 1
    /\ c.events[1].result = "throws"
    /\ Len(c.cmds) = 2
    /\ c.post.commandQueue = c.cmds

\* C15 (as claimed): a payment_success event is reported only after the
\* commands of the purchase have been handed to the session: when a call
\* reports it the state is connected and no command is pending.
C15_SuccessReportedAfterDelivery ==
  \A c \in Calls :
    (\E i \in 1..Len(c.events) : c.events[i].type = "payment_success") =>
      c.post.isReady /\ c.post.commandQueue = <<>>

(***************************************************************************)
(* Properties of the parsers and of the quantity (SpecPurchase).           *)
(***************************************************************************)
\* the category of a field of an embed, by the tests of the field loop in
\* their order
Category(name) ==
  LET n == toLowerCase(name)
  IN IF includes(n, s_invoice) \/ includes(n, s_order) THEN "invoice"
     ELSE IF includes(n, s_product) \/ includes(n, s_item) THEN "product"
     ELSE IF includes(n, s_quantity) \/ includes(n, s_amount) THEN "quantity"
     ELSE IF \/ includes(n, customFieldName)
             \/ includes(n, s_username)
             \/ includes(n, s_ign) THEN "recipient-name"
     ELSE IF includes(n, s_product_id) \/ includes(n, s_id) THEN "product-id"
     ELSE "none"

\* the fields of a category, by their places in the payload
FieldsOf(fields, category) ==
  { i \in 1..Len(fields) : Category(fields[i].name) = category }

\* the value of the first field of a category that has a field
FirstValue(fields, category) == fields[MinOf(FieldsOf(fields, category))].value

\* C16 (as claimed): the record of a field-list embed takes the value of each
\* category from the first field of that category, a later field of the
\* category not overwriting it, and a quantity field that is no number leaves
\* the quantity 1.
C16_FirstFieldWins ==
  (/\ lastRequest.endpoint = "discord"
   /\ build = "part_000"
   /\ lastRequest.calls # <<>>
   /\ lastRequest.body[1].embeds[1][1].fields # undefined)
  => LET fields == lastRequest.body[1].embeds[1][1].fields[1]
         data == lastRequest.calls[1].data
     IN /\ FieldsOf(fields, "invoice") # {}
             => data.invoiceId = Some(FirstValue(fields, "invoice"))
        /\ FieldsOf(fields, "product") # {}
             => data.productName = Some(FirstValue(fields, "product"))
        /\ FieldsOf(fields, "recipient-name") # {}
             => data.inGameName = Some(FirstValue(fields, "recipient-name"))
        /\ FieldsOf(fields, "product-id") # {}
             => data.productId = Some(FirstValue(fields, "product-id"))
        /\ FieldsOf(fields, "quantity") # {}
             => data.quantity =
                  OrNumber(parseInt(FirstValue(fields, "quantity")), 1)
        /\ FieldsOf(fields, "quantity") = {} => data.quantity = 1

\* C17 (as claimed): the quantity of every record that reaches processPurchase,
\* from any endpoint, is at least 1, so that the amount of every payment of a
\* catalog entry is a positive multiple of its amountPerUnit.
C17_QuantityAtLeastOne ==
  \A c \in Calls :
    /\ c.data.quantity >= 1
    /\ \A i \in 1..Len(CONFIG_products) :
         (/\ c.outcome = "success"
          /\ resolveProduct(c.data).config = Some(CONFIG_products[i].config))
         => \E k \in 1..MaxQuantity :
              c.cmds[Len(c.cmds)] =
                s_pay \o c.data.inGameName[1] \o <<" ">>
                  \o formatAmount(Times(CONFIG_products[i].config.amountPerUnit, k))

====
